---- MODULE Spec2Model ----
(***************************************************************************)
(* Model of validators/python/openapia_validator.py (OpenAPIAValidator):   *)
(* hierarchical composition (load_spec, resolve_inheritance_path,          *)
(* load_inherited_specs, deep_merge, merge_inherited_specifications,       *)
(* validate_with_inheritance) and validation (validate_spec and the        *)
(* section validators, _cross_validate).                                   *)
(*                                                                         *)
(* A structured document is a tagged value:                                *)
(*   [s |-> "text"]      a string scalar                                   *)
(*   [p |-> <<c1,..>>]   a string scalar that spells a path, kept as its   *)
(*                       "/"-separated components                          *)
(*   [l |-> <<v1,..>>]   a sequence (Python list)                          *)
(*   [m |-> f]           a mapping (Python dict), f a function on strings  *)
(*   [none |-> TRUE]     Python None                                       *)
(* Diagnostics are the message strings the code appends.                   *)
(***************************************************************************)
EXTENDS Integers, Sequences, FiniteSets, TLC

VARIABLES
    fs,               \* the file system: canonical path -> file content
    errors,           \* self.errors
    warnings,         \* self.warnings
    inherited_specs,  \* self.inherited_specs (Resolver Cache)
    merge_cache,      \* self.merge_cache     (Merge Cache)
    last,             \* observation of the last call: op, argument, return value, ...
    calls,            \* the number of calls made on the validator
    edits,            \* the number of times the environment rewrote a file
    mA, mB, mOut      \* inputs and result of a direct deep_merge call

vars == <<fs, errors, warnings, inherited_specs, merge_cache, last, calls, edits, mA, mB, mOut>>

----------------------------------------------------------------------------
(* Values *)

S(v) == [s |-> v]
P(c) == [p |-> c]
L(q) == [l |-> q]
M(f) == [m |-> f]
None == [none |-> TRUE]

EmptyMap == [k \in {} |-> None]

IsNone(v) == "none" \in DOMAIN v
IsDict(v) == "m" \in DOMAIN v
IsList(v) == "l" \in DOMAIN v
IsStr(v)  == "s" \in DOMAIN v \/ "p" \in DOMAIN v

\* 'k' in d, for a dict d
Has(d, k) == k \in DOMAIN d.m

RECURSIVE Render(_)
\* the text of a path held as components
Render(c) ==
    IF Len(c) = 0 THEN ""
    ELSE IF Len(c) = 1 THEN c[1]
    ELSE IF c[1] = "/" THEN "/" \o Render(Tail(c))
    ELSE c[1] \o "/" \o Render(Tail(c))

\* str(v) of a string scalar, as an f-string formats it
Str(v) == IF "p" \in DOMAIN v THEN Render(v.p) ELSE v.s

----------------------------------------------------------------------------
(* deep_merge *)

RECURSIVE deep_merge(_, _)
\* a mutant: the override's mapping replaces the base's mapping instead of
\* being merged into it
deep_merge_shallow(base, override) ==
    M([k \in DOMAIN base.m \cup DOMAIN override.m |->
        IF k \in DOMAIN override.m THEN override.m[k] ELSE base.m[k]])

\* a mutant: the test reads `value and isinstance(value, dict)`, so that an
\* empty mapping of the override replaces the base's mapping
deep_merge_truthy(base, override) ==
    M([k \in DOMAIN base.m \cup DOMAIN override.m |->
        IF k \in DOMAIN override.m
        THEN IF /\ k \in DOMAIN base.m
                /\ IsDict(base.m[k])
                /\ IsDict(override.m[k])
                /\ DOMAIN override.m[k].m # {}
             THEN deep_merge(base.m[k], override.m[k])
             ELSE override.m[k]
        ELSE base.m[k]])

deep_merge(base, override) ==
    M([k \in DOMAIN base.m \cup DOMAIN override.m |->
        IF k \in DOMAIN override.m
        THEN IF /\ k \in DOMAIN base.m
                /\ IsDict(base.m[k])
                /\ IsDict(override.m[k])
             THEN deep_merge(base.m[k], override.m[k])
             ELSE override.m[k]
        ELSE base.m[k]])

----------------------------------------------------------------------------
(* Bounds *)

\* frames a call chain may nest before Python raises RecursionError
MaxDepth == 6

\* calls made on one validator
MaxCalls == 2

\* rewrites of a file by the environment
MaxEdits == 1

\* tasks of a document handed to validate_spec, and steps of one task
MaxTasks == 2
MaxSteps == 2

\* the number of distinct scalar texts of the documents handed to deep_merge
NumScalars == 2

----------------------------------------------------------------------------
(* Paths and files.  A path is the sequence of its "/"-separated components; *)
(* a path that starts with "/" has "/" as its first component.               *)

YamlNames == {"r.yaml", "a.yaml", "b.yaml", "c.yaml", "missing.yaml"}
JsonNames == {"j.json"}

endswith_yaml(path) == Len(path) > 0 /\ path[Len(path)] \in YamlNames
endswith_json(path) == Len(path) > 0 /\ path[Len(path)] \in JsonNames

RECURSIVE Normalize(_, _)
\* the file a path denotes when the operating system opens it: "." is
\* dropped and ".." leaves the directory reached so far
Normalize(done, rest) ==
    IF Len(rest) = 0 THEN done
    ELSE IF rest[1] = "." THEN Normalize(done, Tail(rest))
    ELSE IF rest[1] = ".."
         THEN IF Len(done) = 0 THEN <<"..">> \o rest
              ELSE Normalize(SubSeq(done, 1, Len(done) - 1), Tail(rest))
    ELSE Normalize(Append(done, rest[1]), Tail(rest))

Canon(path) == Normalize(<<>>, path)

\* open(path): the content of the file, [kind |-> "absent"] when there is none
OpenFile(files, path) ==
    IF Canon(path) \in DOMAIN files THEN files[Canon(path)] ELSE [kind |-> "absent"]

\* the module's imports: yaml, json, sys, typing, pathlib, argparse.  The name
\* os is bound nowhere in the module, so evaluating it raises NameError.
os_imported == FALSE

NameErrorOs == "name 'os' is not defined"
RecursionErrorText == "maximum recursion depth exceeded"

\* os.path.dirname
dirname(path) == IF Len(path) = 0 THEN <<>> ELSE SubSeq(path, 1, Len(path) - 1)

\* os.path.join: an absolute second argument discards the first
join(dir, path) ==
    IF Len(path) > 0 /\ path[1] = "/" THEN path ELSE dir \o path

resolve_inheritance_path(inherit_path, current_spec_path) ==
    IF ~os_imported
    THEN [exc |-> NameErrorOs, path |-> <<>>]
    ELSE [exc |-> "none", path |-> join(dirname(current_spec_path), inherit_path.p)]

----------------------------------------------------------------------------
(* The validator's state while a call runs:                                 *)
(*   errors, warnings, inherited_specs, merge_cache   the instance fields   *)
(*   exc      the text of the exception being propagated, "none" if none    *)
(*   loads    the paths load_spec was called with, in call order            *)
(*   merges   the paths merge_inherited_specifications computed (misses)    *)

AddError(st, msg) == [st EXCEPT !.errors = Append(@, msg)]
Raise(st, msg) == [st EXCEPT !.exc = msg]
Put(cache, key, val) ==
    [k \in DOMAIN cache \cup {key} |-> IF k = key THEN val ELSE cache[k]]

\* v named r in In: LET r == v IN In(r)
Let(v, In(_)) == In(v)

\* the result of a load: the state after it and the document (or None)
Loaded(st, ret) == [st |-> st, ret |-> ret]

load_spec(st, files, spec_path) ==
    Let([st EXCEPT !.loads = Append(@, spec_path)], LAMBDA st1 :
    Let(OpenFile(files, spec_path), LAMBDA f :
        IF f.kind = "absent"
        THEN Loaded(AddError(st1, "File not found: " \o Render(spec_path)), None)
        ELSE IF endswith_yaml(spec_path)
        THEN IF f.kind = "garbage"
             THEN Loaded(AddError(st1, "YAML parsing error in " \o Render(spec_path)
                                        \o ": <e>"), None)
             ELSE Loaded(st1, f.doc)
        ELSE IF endswith_json(spec_path)
        THEN IF f.kind = "garbage"
             THEN Loaded(AddError(st1, "JSON parsing error in " \o Render(spec_path)
                                        \o ": <e>"), None)
             ELSE Loaded(st1, f.doc)
        ELSE Loaded(AddError(st1, "Unsupported file format: " \o Render(spec_path)),
                    None)))

HasInheritsList(spec) == Has(spec, "inherits") /\ IsList(spec.m["inherits"])

RECURSIVE load_inherited_specs(_, _, _, _, _)
RECURSIVE load_inherited_loop(_, _, _, _, _, _)

\* one pass of the for loop of load_inherited_specs, over entry i: the state
\* after it
load_inherited_entry(st, files, inherits, i, spec_path, depth) ==
    Let(resolve_inheritance_path(inherits[i], spec_path), LAMBDA r :
        IF r.exc # "none" THEN Raise(st, r.exc)
        ELSE IF r.path \in DOMAIN st.inherited_specs THEN st
        ELSE Let(load_spec(st, files, r.path), LAMBDA ld :
                 IF ~IsNone(ld.ret)
                 THEN load_inherited_specs(
                          [ld.st EXCEPT !.inherited_specs = Put(@, r.path, ld.ret)],
                          files, ld.ret, r.path, depth + 1)
                 ELSE AddError(ld.st, "Inherited specification not found: "
                                       \o Str(inherits[i]))))

\* the for loop of load_inherited_specs, from entry i on
load_inherited_loop(st, files, inherits, i, spec_path, depth) ==
    IF st.exc # "none" \/ i > Len(inherits) THEN st
    ELSE load_inherited_loop(
             load_inherited_entry(st, files, inherits, i, spec_path, depth),
             files, inherits, i + 1, spec_path, depth)

load_inherited_specs(st, files, spec, spec_path, depth) ==
    IF depth > MaxDepth THEN Raise(st, RecursionErrorText)
    ELSE IF ~HasInheritsList(spec) THEN st
    ELSE load_inherited_loop(st, files, spec.m["inherits"].l, 1, spec_path, depth)

Reverse(q) == [i \in 1..Len(q) |-> q[Len(q) + 1 - i]]

RECURSIVE merge_inherited_specifications(_, _, _, _, _)
RECURSIVE merge_inherited_loop(_, _, _, _, _, _)

\* one pass of the for loop of merge_inherited_specifications, over entry i
\* of reversed(spec['inherits']); acc holds the state and `merged`
merge_inherited_entry(acc, files, rinherits, i, spec_path, depth) ==
    Let(resolve_inheritance_path(rinherits[i], spec_path), LAMBDA r :
        IF r.exc # "none" THEN Loaded(Raise(acc.st, r.exc), acc.ret)
        ELSE IF r.path \in DOMAIN acc.st.inherited_specs
        THEN Let(merge_inherited_specifications(
                     acc.st, files, acc.st.inherited_specs[r.path], r.path, depth + 1),
                 LAMBDA sub :
                     IF sub.st.exc # "none" THEN Loaded(sub.st, acc.ret)
                     ELSE Loaded(sub.st, deep_merge(sub.ret, acc.ret)))
        ELSE acc)

\* the for loop of merge_inherited_specifications, from entry i on
merge_inherited_loop(acc, files, rinherits, i, spec_path, depth) ==
    IF acc.st.exc # "none" \/ i > Len(rinherits) THEN acc
    ELSE merge_inherited_loop(
             merge_inherited_entry(acc, files, rinherits, i, spec_path, depth),
             files, rinherits, i + 1, spec_path, depth)

merge_inherited_specifications(st, files, spec, spec_path, depth) ==
    IF depth > MaxDepth THEN Loaded(Raise(st, RecursionErrorText), None)
    ELSE IF spec_path \in DOMAIN st.merge_cache
    THEN Loaded(st, st.merge_cache[spec_path])
    ELSE
      Let(load_inherited_specs([st EXCEPT !.merges = Append(@, spec_path)],
                               files, spec, spec_path, depth + 1),
          LAMBDA st1 :
      Let(IF st1.exc = "none" /\ HasInheritsList(spec)
          THEN merge_inherited_loop(Loaded(st1, spec), files,
                                    Reverse(spec.m["inherits"].l), 1, spec_path, depth)
          ELSE Loaded(st1, spec),
          LAMBDA r :
              IF r.st.exc # "none" THEN Loaded(r.st, None)
              ELSE Loaded([r.st EXCEPT !.merge_cache = Put(@, spec_path, r.ret)],
                          r.ret)))

----------------------------------------------------------------------------
(* Section validators.  Each returns [e |-> errors, w |-> warnings], the    *)
(* messages it appends to self.errors and self.warnings, in order.  Loop    *)
(* indices are Python's (from 0).                                           *)

NoDiag == [e |-> <<>>, w |-> <<>>]
Err(msg) == [e |-> <<msg>>, w |-> <<>>]
Warn(msg) == [e |-> <<>>, w |-> <<msg>>]
\* the messages of a followed by the messages of b
Both(a, b) == [e |-> a.e \o b.e, w |-> a.w \o b.w]

RECURSIVE Flatten(_)
\* the messages of the entries of ds, in order
Flatten(ds) == IF Len(ds) = 0 THEN NoDiag ELSE Both(Head(ds), Flatten(Tail(ds)))

\* for field in fields: if field not in d: errors.append(prefix + field)
MissingFields(d, fields, prefix) ==
    Flatten([i \in 1..Len(fields) |->
        IF Has(d, fields[i]) THEN NoDiag ELSE Err(prefix \o fields[i])])

\* the ids added to the `ids` set by the entries before entry i (1-based)
IdsBefore(list, i) ==
    {list[j].m["id"] : j \in {n \in 1..(i - 1) : IsDict(list[n]) /\ Has(list[n], "id")}}

DuplicateId(list, i, what) ==
    IF Has(list[i], "id") /\ list[i].m["id"] \in IdsBefore(list, i)
    THEN Err("Duplicate " \o what \o " ID: " \o Str(list[i].m["id"]))
    ELSE NoDiag

\* if key in d: if d[key] not in valid: append
InvalidChoice(d, key, valid, prefix, asWarning) ==
    IF Has(d, key) /\ ~(IsStr(d.m[key]) /\ Str(d.m[key]) \in valid)
    THEN IF asWarning THEN Warn(prefix \o Str(d.m[key])) ELSE Err(prefix \o Str(d.m[key]))
    ELSE NoDiag

required_sections ==
    <<"openapia", "info", "models", "prompts", "constraints", "tasks", "context",
      "evaluation">>

_validate_required_sections(spec) ==
    MissingFields(spec, required_sections, "Missing required section: ")

\* version.startswith('0.1'), over the version texts of the model's documents
startswith_0_1(text) == text \in {"0.1", "0.1.0", "0.1.1", "0.10.0"}

_validate_openapia_version(version) ==
    IF ~IsStr(version) THEN Err("openapia version must be a string")
    ELSE IF ~startswith_0_1(Str(version))
    THEN Warn("Version " \o Str(version) \o " may not be supported")
    ELSE NoDiag

_validate_ai_metadata(metadata) ==
    Flatten(<<(IF ~Has(metadata, "domain") THEN Warn("ai_metadata.domain is recommended") ELSE NoDiag)
    ,  InvalidChoice(metadata, "complexity", {"low", "medium", "high"},
                     "Invalid complexity: ", FALSE)>>)

_validate_info(info) ==
    Flatten(<<MissingFields(info, <<"title", "version", "description">>,
                  "Missing required field in info: ")
    ,  (IF Has(info, "ai_metadata") THEN _validate_ai_metadata(info.m["ai_metadata"])
        ELSE NoDiag)>>)

_validate_models(models) ==
    IF ~IsList(models) THEN Err("models must be a list")
    ELSE IF Len(models.l) = 0 THEN Err("At least one model is required")
    ELSE Flatten([i \in 1..Len(models.l) |->
        LET model == models.l[i]
            n == ToString(i - 1)
        IN  IF ~IsDict(model) THEN Err("Model " \o n \o " must be a dictionary")
            ELSE Flatten(<<MissingFields(model, <<"id", "type", "provider", "name", "purpose">>,
                               "Model " \o n \o " missing required field: ")
                 ,  DuplicateId(models.l, i, "model")
                 ,  InvalidChoice(model, "type",
                        {"LLM", "Vision", "Audio", "Multimodal", "Classification",
                         "Embedding"},
                        "Unknown model type: ", TRUE)>>)])

_validate_prompts(prompts) ==
    IF ~IsList(prompts) THEN Err("prompts must be a list")
    ELSE Flatten([i \in 1..Len(prompts.l) |->
        LET prompt == prompts.l[i]
            n == ToString(i - 1)
        IN  IF ~IsDict(prompt) THEN Err("Prompt " \o n \o " must be a dictionary")
            ELSE Flatten(<<MissingFields(prompt, <<"id", "role", "template">>,
                               "Prompt " \o n \o " missing required field: ")
                 ,  DuplicateId(prompts.l, i, "prompt")
                 ,  InvalidChoice(prompt, "role", {"system", "user", "assistant"},
                                  "Invalid prompt role: ", FALSE)>>)])

_validate_constraints(constraints) ==
    IF ~IsList(constraints) THEN Err("constraints must be a list")
    ELSE Flatten([i \in 1..Len(constraints.l) |->
        LET constraint == constraints.l[i]
            n == ToString(i - 1)
        IN  IF ~IsDict(constraint) THEN Err("Constraint " \o n \o " must be a dictionary")
            ELSE Flatten(<<MissingFields(constraint, <<"id", "rule", "severity">>,
                               "Constraint " \o n \o " missing required field: ")
                 ,  DuplicateId(constraints.l, i, "constraint")
                 ,  InvalidChoice(constraint, "severity",
                                  {"low", "medium", "high", "critical"},
                                  "Invalid constraint severity: ", FALSE)>>)])

_validate_task_steps(steps, task_index) ==
    Flatten([i \in 1..Len(steps.l) |->
        LET step == steps.l[i]
            at == "Task " \o ToString(task_index) \o " step " \o ToString(i - 1)
            action == IF Has(step, "action") /\ IsStr(step.m["action"])
                      THEN Str(step.m["action"]) ELSE ""
        IN  IF ~IsDict(step) THEN Err(at \o " must be a dictionary")
            ELSE Flatten(<<MissingFields(step, <<"name", "action">>, at \o " missing required field: ")
                 ,  InvalidChoice(step, "action",
                        {"analyze", "generate", "validate", "search", "escalate",
                         "classify", "mcp_tool", "mcp_resource"},
                        at \o " unknown action: ", TRUE)
                 ,  (IF action \in {"mcp_tool", "mcp_resource"}
                     THEN Flatten(<<(IF ~Has(step, "mcp_server")
                           THEN Err(at \o " MCP action missing mcp_server field")
                           ELSE NoDiag)
                          ,  (IF action = "mcp_tool" /\ ~Has(step, "mcp_tool")
                              THEN Err(at \o " mcp_tool action missing mcp_tool field")
                              ELSE NoDiag)
                          ,  (IF action = "mcp_resource" /\ ~Has(step, "mcp_resource")
                              THEN Err(at \o " mcp_resource action missing mcp_resource field")
                              ELSE NoDiag)>>)
                     ELSE NoDiag)>>)])

_validate_tasks(tasks) ==
    IF ~IsList(tasks) THEN Err("tasks must be a list")
    ELSE Flatten([i \in 1..Len(tasks.l) |->
        LET task == tasks.l[i]
            n == ToString(i - 1)
        IN  IF ~IsDict(task) THEN Err("Task " \o n \o " must be a dictionary")
            ELSE Flatten(<<MissingFields(task, <<"id", "description">>,
                               "Task " \o n \o " missing required field: ")
                 ,  DuplicateId(tasks.l, i, "task")
                 ,  (IF Has(task, "steps") /\ IsList(task.m["steps"])
                     THEN _validate_task_steps(task.m["steps"], i - 1)
                     ELSE NoDiag)>>)])

_validate_mcp_transport(transport, n) ==
    IF ~Has(transport, "type")
    THEN Err("MCP server " \o n \o " transport missing required field: type")
    ELSE LET type == Str(transport.m["type"]) IN
         Flatten(<<(IF type \notin {"stdio", "sse", "websocket"}
          THEN Err("MCP server " \o n \o " invalid transport type: " \o type)
          ELSE NoDiag)
         ,  (IF type = "stdio"
             THEN IF ~Has(transport, "command")
                  THEN Err("MCP server " \o n \o " stdio transport missing command")
                  ELSE NoDiag
             ELSE IF type \in {"sse", "websocket"} /\ ~Has(transport, "url")
                  THEN Err("MCP server " \o n \o " " \o type \o " transport missing url")
                  ELSE NoDiag)>>)

_validate_mcp_authentication(auth, n) ==
    IF ~Has(auth, "type")
    THEN Err("MCP server " \o n \o " authentication missing required field: type")
    ELSE LET type == Str(auth.m["type"]) IN
         Flatten(<<(IF type \notin {"none", "api_key", "oauth", "custom"}
          THEN Err("MCP server " \o n \o " invalid authentication type: " \o type)
          ELSE NoDiag)
         ,  (IF type = "api_key" /\ ~Has(auth, "api_key")
             THEN Warn("MCP server " \o n \o " api_key authentication missing api_key field")
             ELSE NoDiag)
         ,  (IF type = "oauth" /\ ~Has(auth, "token")
             THEN Warn("MCP server " \o n \o " oauth authentication missing token field")
             ELSE NoDiag)>>)

_validate_mcp_servers(mcp_servers) ==
    IF ~IsList(mcp_servers) THEN Err("mcp_servers must be a list")
    ELSE Flatten([i \in 1..Len(mcp_servers.l) |->
        LET server == mcp_servers.l[i]
            n == ToString(i - 1)
        IN  IF ~IsDict(server) THEN Err("MCP server " \o n \o " must be a dictionary")
            ELSE Flatten(<<MissingFields(server,
                     <<"id", "name", "description", "version", "transport",
                       "capabilities", "authentication">>,
                     "MCP server " \o n \o " missing required field: ")
                 ,  DuplicateId(mcp_servers.l, i, "MCP server")
                 ,  (IF Has(server, "transport") /\ IsDict(server.m["transport"])
                     THEN _validate_mcp_transport(server.m["transport"], n)
                     ELSE NoDiag)
                 ,  (IF Has(server, "authentication")
                        /\ IsDict(server.m["authentication"])
                     THEN _validate_mcp_authentication(server.m["authentication"], n)
                     ELSE NoDiag)>>)])

_validate_context(context) ==
    IF ~IsDict(context) THEN Err("context must be a dictionary")
    ELSE Flatten(<<(IF ~Has(context, "memory") THEN Warn("context.memory is recommended")
          ELSE NoDiag)
         ,  (IF Has(context, "mcp_servers")
             THEN _validate_mcp_servers(context.m["mcp_servers"])
             ELSE NoDiag)>>)

_validate_evaluation(evaluation) ==
    IF ~IsDict(evaluation) THEN Err("evaluation must be a dictionary")
    ELSE IF ~Has(evaluation, "metrics") THEN Warn("evaluation.metrics is recommended")
    ELSE NoDiag

----------------------------------------------------------------------------
(* _cross_validate and validate_spec *)

\* {entry.get('id') for entry in list if 'id' in entry}
DeclaredIds(list) == {list.l[i].m["id"] : i \in {n \in 1..Len(list.l) : Has(list.l[n], "id")}}

\* a mutant: only the first step of each task is looked at
UnknownReferencesFirstStep(tasks, key, ids, prefix) ==
    Flatten([t \in 1..Len(tasks.l) |->
        IF /\ Has(tasks.l[t], "steps")
           /\ Len(tasks.l[t].m["steps"].l) > 0
           /\ Has(tasks.l[t].m["steps"].l[1], key)
           /\ tasks.l[t].m["steps"].l[1].m[key] \notin ids
        THEN Err(prefix \o Str(tasks.l[t].m["steps"].l[1].m[key]))
        ELSE NoDiag])

\* for task in spec['tasks']: if 'steps' in task: for step in task['steps']:
\*     if key in step and step[key] not in ids: errors.append(prefix + step[key])
UnknownReferences(tasks, key, ids, prefix) ==
    Flatten([t \in 1..Len(tasks.l) |->
        IF Has(tasks.l[t], "steps")
        THEN LET steps == tasks.l[t].m["steps"].l IN
             Flatten([i \in 1..Len(steps) |->
                 IF Has(steps[i], key) /\ steps[i].m[key] \notin ids
                 THEN Err(prefix \o Str(steps[i].m[key]))
                 ELSE NoDiag])
        ELSE NoDiag])

\* the model check of _cross_validate
CrossValidateModels(spec) ==
    IF Has(spec, "tasks") /\ Has(spec, "models")
    THEN UnknownReferences(spec.m["tasks"], "model", DeclaredIds(spec.m["models"]),
                           "Task references unknown model: ")
    ELSE NoDiag

\* the prompt check of _cross_validate
CrossValidatePrompts(spec) ==
    IF Has(spec, "tasks") /\ Has(spec, "prompts")
    THEN UnknownReferences(spec.m["tasks"], "prompt", DeclaredIds(spec.m["prompts"]),
                           "Task references unknown prompt: ")
    ELSE NoDiag

\* the MCP server check of _cross_validate
CrossValidateMcpServers(spec) ==
    IF /\ Has(spec, "tasks")
       /\ Has(spec, "context")
       /\ Has(spec.m["context"], "mcp_servers")
    THEN UnknownReferences(spec.m["tasks"], "mcp_server",
                           DeclaredIds(spec.m["context"].m["mcp_servers"]),
                           "Task references unknown MCP server: ")
    ELSE NoDiag

_cross_validate(spec) ==
    Flatten(<<CrossValidateModels(spec), CrossValidatePrompts(spec),
              CrossValidateMcpServers(spec)>>)

\* the diagnostics validate_spec leaves in self.errors and self.warnings
SpecDiagnostics(spec) ==
    Flatten(<<_validate_required_sections(spec)
    ,  (IF Has(spec, "openapia") THEN _validate_openapia_version(spec.m["openapia"])
        ELSE NoDiag)
    ,  (IF Has(spec, "info") THEN _validate_info(spec.m["info"]) ELSE NoDiag)
    ,  (IF Has(spec, "models") THEN _validate_models(spec.m["models"]) ELSE NoDiag)
    ,  (IF Has(spec, "prompts") THEN _validate_prompts(spec.m["prompts"]) ELSE NoDiag)
    ,  (IF Has(spec, "constraints") THEN _validate_constraints(spec.m["constraints"])
        ELSE NoDiag)
    ,  (IF Has(spec, "tasks") THEN _validate_tasks(spec.m["tasks"]) ELSE NoDiag)
    ,  (IF Has(spec, "context") THEN _validate_context(spec.m["context"]) ELSE NoDiag)
    ,  (IF Has(spec, "evaluation") THEN _validate_evaluation(spec.m["evaluation"])
        ELSE NoDiag)
    ,  _cross_validate(spec)>>)

validate_spec(st, spec) ==
    Let(SpecDiagnostics(spec), LAMBDA d :
        [st |-> [st EXCEPT !.errors = d.e, !.warnings = d.w], ret |-> Len(d.e) = 0])

----------------------------------------------------------------------------
(* validate_with_inheritance.  composed is the merged specification handed  *)
(* to validate_spec, None when the call ends before that.                   *)

validate_with_inheritance(st, files, file_path) ==
    Let(load_spec(st, files, file_path), LAMBDA ld :
        IF IsNone(ld.ret) THEN [st |-> ld.st, ret |-> FALSE, composed |-> None]
        ELSE
          Let(merge_inherited_specifications(ld.st, files, ld.ret, file_path, 1),
              LAMBDA mg :
                  IF mg.st.exc # "none"
                  THEN [st |-> AddError(mg.st,
                                   "Unexpected error during hierarchical validation: "
                                   \o mg.st.exc),
                        ret |-> FALSE, composed |-> None]
                  ELSE Let(validate_spec(mg.st, mg.ret), LAMBDA v :
                           [st |-> v.st, ret |-> v.ret, composed |-> mg.ret])))

\* get_results()['valid']
get_results_valid(errs) == Len(errs) = 0

----------------------------------------------------------------------------
(* The documents and files of the model *)

pR == <<"r.yaml">>
pA == <<"a.yaml">>
pB == <<"b.yaml">>
pC == <<"c.yaml">>
pCdot == <<".", "c.yaml">>
pMissing == <<"missing.yaml">>
pJson == <<"j.json">>
pTxt == <<"notes.txt">>

Inherits(v) == "inherits" :> v
PathList(q) == L([i \in 1..Len(q) |-> P(q[i])])

ModelEntry(id) ==
    M([id |-> S(id), type |-> S("LLM"), provider |-> S("acme"), name |-> S("n"),
       purpose |-> S("u")])
Step(ref) ==
    M([name |-> S("s"), action |-> S("generate")]
      @@ (IF ref = "" THEN EmptyMap ELSE "model" :> S(ref)))
Task(id, steps) == M([id |-> S(id), description |-> S("d"), steps |-> L(steps)])
ModelList(ids) == L([i \in 1..Len(ids) |-> ModelEntry(ids[i])])

\* the six sections a valid document needs besides models and tasks
OtherSections ==
    [openapia |-> S("0.1.0"),
     info |-> M([title |-> S("t"), version |-> S("1"), description |-> S("d")]),
     prompts |-> L(<<>>),
     constraints |-> L(<<>>),
     context |-> M(EmptyMap),
     evaluation |-> M([metrics |-> L(<<>>)])]

\* a document with every required section: models ids, one task with one
\* step that references ref
Sections(ids, ref) ==
    OtherSections @@ [models |-> ModelList(ids), tasks |-> L(<<Task("t1", <<Step(ref)>>)>>)]

OwnX(who) == "x" :> S(who)

RootInherits ==
    {EmptyMap, Inherits(L(<<>>)), Inherits(P(pA)),
     Inherits(PathList(<<pA>>)), Inherits(PathList(<<pA, pB>>)),
     Inherits(PathList(<<pB, pA>>)), Inherits(PathList(<<pMissing>>)),
     Inherits(PathList(<<pC, pCdot>>)),
     Inherits(PathList(<<pA, pMissing>>)), Inherits(PathList(<<pMissing, pA>>))}
RootOwn ==
    {EmptyMap, OwnX("r"), Sections(<<"m1">>, "m1"), Sections(<<"m1">>, "m2"),
     OwnX("r") @@ [models |-> ModelList(<<"m2">>)]}
RootFiles ==
    {[kind |-> "absent"], [kind |-> "garbage"], [kind |-> "doc", doc |-> None]}
    \cup {[kind |-> "doc", doc |-> M(i @@ o)] : i \in RootInherits, o \in RootOwn}

AFiles ==
    {[kind |-> "doc", doc |-> M(i @@ o)] :
        i \in {EmptyMap, Inherits(PathList(<<pC>>)), Inherits(PathList(<<pR>>))},
        o \in {OwnX("a"), Sections(<<"m1">>, "m1")}}
BFiles ==
    {[kind |-> "doc", doc |-> M(i @@ OwnX("b"))] :
        i \in {EmptyMap, Inherits(PathList(<<pC>>)), Inherits(PathList(<<pCdot>>))}}
CFiles ==
    {[kind |-> "doc", doc |-> M(o)] : o \in {"k" :> S("c"), OwnX("c") @@ ("k" :> S("c"))}}

FileSystems ==
    {(pR :> r) @@ (pA :> a) @@ (pB :> b) @@ (pC :> c)
       @@ (pJson :> [kind |-> "garbage"])
       @@ (pTxt :> [kind |-> "doc", doc |-> M(OwnX("t"))]) :
        r \in RootFiles, a \in AFiles, b \in BFiles, c \in CFiles}

RootPaths == {pR, pJson, pTxt, pMissing}

----------------------------------------------------------------------------
(* The state machine *)

NoCall ==
    [op |-> "init", path |-> <<>>, ret |-> FALSE, composed |-> None, raised |-> "none",
     loads |-> <<>>, merges |-> <<>>, edits |-> 0]

\* OpenAPIAValidator.__init__
InitValidator ==
    /\ errors = <<>>
    /\ warnings = <<>>
    /\ inherited_specs = <<>>
    /\ merge_cache = <<>>
    /\ last = NoCall
    /\ calls = 0
    /\ edits = 0

Init ==
    /\ fs \in FileSystems
    /\ InitValidator
    /\ mA = None /\ mB = None /\ mOut = None

\* the instance fields of a validator just constructed
NewValidator ==
    [errors |-> <<>>, warnings |-> <<>>, inherited_specs |-> <<>>,
     merge_cache |-> <<>>, exc |-> "none", loads |-> <<>>, merges |-> <<>>]

\* the instance fields as a call finds them
Self ==
    [errors |-> errors, warnings |-> warnings, inherited_specs |-> inherited_specs,
     merge_cache |-> merge_cache, exc |-> "none", loads |-> <<>>, merges |-> <<>>]

Store(st) ==
    /\ errors' = st.errors
    /\ warnings' = st.warnings
    /\ inherited_specs' = st.inherited_specs
    /\ merge_cache' = st.merge_cache

\* a call validator.validate_with_inheritance(file_path)
ValidateWithInheritance(file_path) ==
    \E r \in {validate_with_inheritance(Self, fs, file_path)} :
    /\ calls < MaxCalls
    /\ calls' = calls + 1
    /\ Store(r.st)
    /\ last' = [op |-> "validate_with_inheritance", path |-> file_path, ret |-> r.ret,
                composed |-> r.composed, raised |-> r.st.exc, loads |-> r.st.loads,
                merges |-> r.st.merges, edits |-> edits]
    /\ UNCHANGED <<fs, edits, mA, mB, mOut>>

\* the environment rewrites a file between two calls: its key x gets a new value
EditFile(path) ==
    /\ edits < MaxEdits
    /\ edits' = edits + 1
    /\ fs[path].kind = "doc"
    /\ IsDict(fs[path].doc)
    /\ ~(Has(fs[path].doc, "x") /\ fs[path].doc.m["x"] = S("edited"))
    /\ fs' = [fs EXCEPT ![path] =
                 [kind |-> "doc", doc |-> M(OwnX("edited") @@ fs[path].doc.m)]]
    /\ UNCHANGED <<errors, warnings, inherited_specs, merge_cache, last, calls, mA, mB, mOut>>

Next ==
    \/ \E file_path \in RootPaths : ValidateWithInheritance(file_path)
    \/ \E path \in {pR, pA} : EditFile(path)

Spec == Init /\ [][Next]_vars

----------------------------------------------------------------------------
(* load_inherited_specs called directly on a loaded root document *)

\* the calls spec = validator.load_spec(root_path) and, spec being a mapping,
\* validator.load_inherited_specs(spec, root_path); an exception ends the
\* call and is left to the caller
LoadInheritedSpecs(root_path) ==
    \E ld \in {load_spec(Self, fs, root_path)} :
    /\ calls < 1
    /\ ~IsNone(ld.ret)
    /\ IsDict(ld.ret)
    /\ \E st \in {load_inherited_specs(ld.st, fs, ld.ret, root_path, 1)} :
           /\ Store(st)
           /\ last' = [op |-> "load_inherited_specs", path |-> root_path, ret |-> FALSE,
                       composed |-> None, raised |-> st.exc, loads |-> st.loads,
                       merges |-> st.merges, edits |-> edits]
    /\ calls' = calls + 1
    /\ UNCHANGED <<fs, edits, mA, mB, mOut>>

NextResolve == \E root_path \in {pR, pA} : LoadInheritedSpecs(root_path)

SpecResolve == Init /\ [][NextResolve]_vars

----------------------------------------------------------------------------
(* validate_spec called directly on a document (mA) *)

SeqsUpTo(X, n) == UNION {[1..k -> X] : k \in 0..n}

\* a step that references model m2, prompt p1 and MCP server s1
StepAll ==
    M([name |-> S("s"), action |-> S("generate"), model |-> S("m2"),
       prompt |-> S("p1"), mcp_server |-> S("s1")])

\* a step that references m1 and one that references m2; documents with steps
\* that reference nothing are among ValidateDocs
StepKinds == {Step("m1"), Step("m2")}
TaskSteps == SeqsUpTo(StepKinds, MaxSteps)
TaskLists == SeqsUpTo(TaskSteps, MaxTasks)
Tasks(stepLists) ==
    L([i \in 1..Len(stepLists) |-> Task("t" \o ToString(i), stepLists[i])])

\* a model entry without an id
ModelNoId == M([type |-> S("LLM"), provider |-> S("acme"), name |-> S("n"),
                purpose |-> S("u")])
ModelLists == {ModelList(<<"m1">>), ModelList(<<"m1", "m2">>), L(<<ModelNoId>>)}

ValidateDocs ==
    {M(o @@ [models |-> ms, tasks |-> Tasks(ts)]) :
        o \in {OtherSections, EmptyMap}, ms \in ModelLists, ts \in TaskLists}
    \cup {M(OtherSections), M([tasks |-> L(<<Task("t1", <<Step("m1"), StepAll>>)>>)]),
          M(OtherSections @@ [models |-> ModelList(<<"m1">>),
                              tasks |-> L(<<Task("t1", <<Step("m2"), Step("m1")>>),
                                            Task("t2", <<Step("m2"), Step("")>>)>>)]),
          M([models |-> L(<<ModelNoId>>),
             tasks |-> L(<<Task("t1", <<Step(""), Step("m1")>>), Task("t2", <<>>)>>)]),
          M(OtherSections @@ [models |-> ModelList(<<"m1">>),
                              tasks |-> L(<<M([id |-> S("t1"), description |-> S("d")]),
                                            Task("t1", <<StepAll>>)>>)])}

NoFiles == [path \in {} |-> [kind |-> "absent"]]

InitValidate ==
    /\ fs = NoFiles
    /\ InitValidator
    /\ mA \in ValidateDocs /\ mB = None /\ mOut = None

\* a call validator.validate_spec(mA)
ValidateSpec ==
    \E r \in {validate_spec(Self, mA)} :
    /\ calls < MaxCalls
    /\ calls' = calls + 1
    /\ Store(r.st)
    /\ last' = [NoCall EXCEPT !.op = "validate_spec", !.ret = r.ret, !.composed = mA]
    /\ UNCHANGED <<fs, edits, mA, mB, mOut>>

NextValidate == ValidateSpec

SpecValidate == InitValidate /\ [][NextValidate]_vars

----------------------------------------------------------------------------
(* deep_merge called directly on two mappings (mA, mB) *)

MergeKeys == {"a", "b"}
Scalars == {S(ToString(i)) : i \in 1..NumScalars}
Leaves == Scalars \cup {L(<<S("1")>>)}
MapsOver(K, V) == UNION {{M(f) : f \in [D -> V]} : D \in SUBSET K}
\* nested mappings hold the first and the last scalar
InnerMaps == MapsOver(MergeKeys, {S("1"), S(ToString(NumScalars))})
\* three levels of nesting
DeepMaps ==
    {M("a" :> M("a" :> M("a" :> S("1")))),
     M("a" :> M("a" :> M("b" :> S("2")) @@ "b" :> S("1"))),
     M("a" :> M("a" :> S("1")))}
MergeDocs == MapsOver(MergeKeys, Leaves \cup InnerMaps) \cup DeepMaps

InitMerge ==
    /\ fs = NoFiles
    /\ InitValidator
    /\ mA \in MergeDocs /\ mB \in MergeDocs /\ mOut = None

\* a call validator.deep_merge(mA, mB)
DeepMerge ==
    /\ calls < 1
    /\ calls' = calls + 1
    /\ mOut' = deep_merge(mA, mB)
    /\ last' = [NoCall EXCEPT !.op = "deep_merge"]
    /\ UNCHANGED <<fs, errors, warnings, inherited_specs, merge_cache, edits, mA, mB>>

NextMerge == DeepMerge

SpecMerge == InitMerge /\ [][NextMerge]_vars

----------------------------------------------------------------------------
(* deep_merge applied twice to three mappings (mA, mB and a third, c), in   *)
(* the two orders; mOut holds c and the two results                         *)

AssocValues == Leaves \cup InnerMaps
AssocDocs ==
    MapsOver({"a"}, AssocValues) \cup DeepMaps
    \cup {M("b" :> S("1")), M([a |-> S("1"), b |-> M("a" :> S("1"))]),
          M([a |-> M("b" :> S("1")), b |-> L(<<S("1")>>)])}

InitAssoc ==
    /\ fs = NoFiles
    /\ InitValidator
    /\ mA \in AssocDocs /\ mB \in AssocDocs /\ mOut = None

\* the calls validator.deep_merge(validator.deep_merge(mA, mB), c) and
\* validator.deep_merge(mA, validator.deep_merge(mB, c))
DeepMergeTwice ==
    \E c \in AssocDocs :
    /\ calls < 1
    /\ calls' = calls + 1
    /\ mOut' = [c |-> c,
                left |-> deep_merge(deep_merge(mA, mB), c),
                right |-> deep_merge(mA, deep_merge(mB, c))]
    /\ last' = [NoCall EXCEPT !.op = "deep_merge_twice"]
    /\ UNCHANGED <<fs, errors, warnings, inherited_specs, merge_cache, edits, mA, mB>>

NextAssoc == DeepMergeTwice

SpecAssoc == InitAssoc /\ [][NextAssoc]_vars

----------------------------------------------------------------------------
(* Properties *)

\* the number of entries of the list q equal to msg
Count(q, msg) == Cardinality({i \in DOMAIN q : q[i] = msg})

ByInheritance == last.op = "validate_with_inheritance"
Validated == last.op \in {"validate_spec", "validate_with_inheritance"} /\ ~IsNone(last.composed)

\* the places <<task, step>> of the steps of a document
StepPlaces(doc) ==
    UNION {{<<t, i>> : i \in 1..Len(doc.m["tasks"].l[t].m["steps"].l)} :
              t \in {n \in 1..Len(doc.m["tasks"].l) : Has(doc.m["tasks"].l[n], "steps")}}
StepAt(doc, place) == doc.m["tasks"].l[place[1]].m["steps"].l[place[2]]
DeclaresModel(doc, id) ==
    \E n \in 1..Len(doc.m["models"].l) :
        Has(doc.m["models"].l[n], "id") /\ doc.m["models"].l[n].m["id"] = S(id)
\* the steps whose model reference id is not declared in models
DanglingModelRefs(doc, id) ==
    {place \in StepPlaces(doc) :
        /\ Has(StepAt(doc, place), "model")
        /\ StepAt(doc, place).m["model"] = S(id)
        /\ ~DeclaresModel(doc, id)}
UnknownModel(id) == "Task references unknown model: " \o id
ModelIds == {"m1", "m2"}

\* C5: for a validated document with a models list and a tasks list, the
\* errors hold 'Task references unknown model: <id>' once for each step whose
\* model reference <id> is not declared in models, and for no other step: for
\* every id, the number of these errors is the number of dangling references
\* to it, over all steps of all tasks.
C5_OneErrorPerDanglingModelRef ==
    (Validated /\ Has(last.composed, "models") /\ Has(last.composed, "tasks"))
    => \A id \in ModelIds :
           Count(errors, UnknownModel(id))
             = Cardinality(DanglingModelRefs(last.composed, id))

\* C5 witness: two tasks, each with a step that references the undeclared m2,
\* and a step that references the declared m1; two errors are recorded
C5_Witness ==
    /\ last.op = "validate_spec"
    /\ Has(last.composed, "models") /\ Has(last.composed, "tasks")
    /\ DeclaresModel(last.composed, "m1")
    /\ Cardinality({pl[1] : pl \in DanglingModelRefs(last.composed, "m2")}) = 2
    /\ \E pl \in StepPlaces(last.composed) :
           Has(StepAt(last.composed, pl), "model")
           /\ StepAt(last.composed, pl).m["model"] = S("m1")
    /\ Count(errors, UnknownModel("m2")) = 2
    /\ Count(errors, UnknownModel("m1")) = 0

\* C6: deep_merge(base, override) has the union of the keys; a key of both
\* whose two values are mappings holds the deep_merge of the two values; any
\* other key of override holds override's value; a key of base alone holds
\* base's value.
C6_DeepMergeByKey ==
    last.op = "deep_merge"
    => /\ IsDict(mOut)
       /\ DOMAIN mOut.m = DOMAIN mA.m \cup DOMAIN mB.m
       /\ \A k \in DOMAIN mOut.m :
            IF k \in DOMAIN mA.m /\ k \in DOMAIN mB.m
               /\ IsDict(mA.m[k]) /\ IsDict(mB.m[k])
            THEN /\ DOMAIN mOut.m[k].m = DOMAIN mA.m[k].m \cup DOMAIN mB.m[k].m
                 /\ mOut.m[k] = deep_merge(mA.m[k], mB.m[k])
                 /\ \A j \in DOMAIN mA.m[k].m \ DOMAIN mB.m[k].m :
                        mOut.m[k].m[j] = mA.m[k].m[j]
            ELSE IF k \in DOMAIN mB.m THEN mOut.m[k] = mB.m[k]
            ELSE mOut.m[k] = mA.m[k]

\* C6 witness: merge({a: {a: 1, b: 2}, b: [1]}, {a: {a: 2}, b: 1})
\*             = {a: {a: 2, b: 2}, b: 1}
C6_Witness ==
    /\ last.op = "deep_merge"
    /\ mA = M([a |-> M([a |-> S("1"), b |-> S("2")]), b |-> L(<<S("1")>>)])
    /\ mB = M([a |-> M("a" :> S("2")), b |-> S("1")])
    /\ mOut = M([a |-> M([a |-> S("2"), b |-> S("2")]), b |-> S("1")])

\* C7: validate_with_inheritance returns true exactly when the error list is
\* empty as it returns, so that its return value is get_results()['valid'].
C7_ReturnAgreesWithErrors ==
    ByInheritance => (last.ret = get_results_valid(errors))

\* C7 observed: r.yaml is an empty document (it loads as None); the call
\* returns false and leaves the error list empty, so get_results()['valid']
\* is true
C7_Observed ==
    /\ ByInheritance /\ last.path = pR
    /\ fs[pR].kind = "doc" /\ IsNone(fs[pR].doc)
    /\ last.ret = FALSE
    /\ errors = <<>>
    /\ get_results_valid(errors)

----------------------------------------------------------------------------
(* Properties of composition.  Each is about the call                       *)
(* validate_with_inheritance("r.yaml") on files not rewritten since.        *)

RootCall == ByInheritance /\ last.path = pR /\ edits = 0 /\ calls = 1

\* the call ended in the except clause of validate_with_inheritance on the
\* NameError of resolve_inheritance_path: nothing was composed, and the one
\* error is the report of the exception
UnexpectedError == "Unexpected error during hierarchical validation: " \o NameErrorOs
EndedOnNameError ==
    /\ last.ret = FALSE
    /\ IsNone(last.composed)
    /\ last.raised = NameErrorOs
    /\ errors = <<UnexpectedError>>

IsDoc(path) == path \in DOMAIN fs /\ fs[path].kind = "doc" /\ IsDict(fs[path].doc)
\* the paths a file declares in inherits, <<>> when it declares no list
InheritsOf(path) ==
    IF IsDoc(path) /\ Has(fs[path].doc, "inherits") /\ IsList(fs[path].doc.m["inherits"])
    THEN [i \in 1..Len(fs[path].doc.m["inherits"].l) |-> fs[path].doc.m["inherits"].l[i].p]
    ELSE <<>>
Declares(path, ancestor) ==
    \E i \in 1..Len(InheritsOf(path)) : Canon(InheritsOf(path)[i]) = ancestor

\* r.yaml inherits a.yaml and a.yaml inherits r.yaml
CycleCase == IsDoc(pR) /\ IsDoc(pA) /\ Declares(pR, pA) /\ Declares(pA, pR)

\* the texts of a diagnostic that identifies the cycle between r.yaml and a.yaml
CycleDiagnostics ==
    {"inheritance cycle detected involving " \o x \o ", " \o y :
        x \in {"r.yaml", "a.yaml"}, y \in {"r.yaml", "a.yaml"}}

\* C1: on a cycle (X inherits Y, Y inherits X) validate_with_inheritance(X)
\* ends without exhausting the call stack and leaves a diagnostic that
\* identifies the cycle in the error list.
C1_CycleEndsWithDiagnostic ==
    (RootCall /\ CycleCase)
    => /\ last.raised # RecursionErrorText
       /\ \E i \in DOMAIN errors : errors[i] \in CycleDiagnostics

\* C1 observed: on the cycle the call ends on the NameError, before any
\* ancestor is loaded
C1_Observed == RootCall /\ CycleCase /\ EndedOnNameError /\ last.loads = <<pR>>

\* r.yaml declares the single ancestor missing.yaml, which is no file
MissingCase == IsDoc(pR) /\ InheritsOf(pR) = <<pMissing>> /\ pMissing \notin DOMAIN fs

\* the texts of the errors that name missing.yaml
MissingDiagnostics ==
    {"Inherited specification not found: missing.yaml", "File not found: missing.yaml"}

\* C2: with one declared ancestor that cannot be loaded, the document is
\* composed as if it had no ancestors, the call returns false, and the error
\* list after the call holds exactly one error that names the missing path.
C2_MissingAncestorReportedOnce ==
    (RootCall /\ MissingCase)
    => /\ last.composed = fs[pR].doc
       /\ last.ret = FALSE
       /\ Cardinality({i \in DOMAIN errors : errors[i] \in MissingDiagnostics}) = 1

\* C2 observed: with the missing ancestor declared, nothing is composed and no
\* error names missing.yaml
C2_Observed ==
    /\ RootCall /\ MissingCase /\ EndedOnNameError
    /\ \A i \in DOMAIN errors : errors[i] \notin MissingDiagnostics

RECURSIVE ComposedX(_)
\* the value of x in the composed document of a file, as the precedence rule
\* gives it: the file's own x, else that of the last declared ancestor whose
\* composed document sets x; None when no document sets it
ComposedX(path) ==
    IF Has(fs[path].doc, "x") THEN fs[path].doc.m["x"]
    ELSE IF \A i \in 1..Len(InheritsOf(path)) : IsNone(ComposedX(Canon(InheritsOf(path)[i])))
    THEN None
    ELSE ComposedX(Canon(InheritsOf(path)[
             CHOOSE i \in 1..Len(InheritsOf(path)) :
                 /\ ~IsNone(ComposedX(Canon(InheritsOf(path)[i])))
                 /\ \A j \in (i + 1)..Len(InheritsOf(path)) :
                        IsNone(ComposedX(Canon(InheritsOf(path)[j])))]))

\* r.yaml declares a.yaml, or a.yaml and b.yaml in either order; no cycle
SiblingCase ==
    /\ IsDoc(pR)
    /\ InheritsOf(pR) \in {<<pA>>, <<pA, pB>>, <<pB, pA>>}
    /\ ~Declares(pA, pR)

\* C3: for a document with loadable ancestors [P1..Pn] the composed x is the
\* document's own x if it sets x, else the x of the last-declared ancestor
\* whose composed document sets x.
C3_LocalThenLastDeclaredWins ==
    (RootCall /\ SiblingCase)
    => /\ ~IsNone(last.composed)
       /\ IF IsNone(ComposedX(pR)) THEN ~Has(last.composed, "x")
          ELSE Has(last.composed, "x") /\ last.composed.m["x"] = ComposedX(pR)

\* C3 observed: r.yaml declares [a.yaml, b.yaml], sets no x, b.yaml sets x;
\* nothing is composed
C3_Observed ==
    /\ RootCall /\ SiblingCase /\ EndedOnNameError
    /\ InheritsOf(pR) = <<pA, pB>>
    /\ ~Has(fs[pR].doc, "x")
    /\ ComposedX(pR) = S("b")

\* r.yaml inherits a.yaml and b.yaml (either order), both inherit c.yaml
DiamondCase ==
    /\ IsDoc(pR)
    /\ InheritsOf(pR) \in {<<pA, pB>>, <<pB, pA>>}
    /\ InheritsOf(pA) = <<pC>>
    /\ InheritsOf(pB) = <<pC>>

\* C4: in a diamond the common ancestor is composed exactly once, and a key
\* that only it defines has its value in the composed root, for either order
\* of the root's inherits list.
C4_DiamondComposesCommonAncestorOnce ==
    (RootCall /\ DiamondCase)
    => /\ ~IsNone(last.composed)
       /\ Has(last.composed, "k")
       /\ last.composed.m["k"] = fs[pC].doc.m["k"]
       /\ Count(last.merges, pC) = 1

\* C4 observed: in the diamond the common ancestor is never composed
C4_Observed ==
    RootCall /\ DiamondCase /\ EndedOnNameError /\ Count(last.merges, pC) = 0

\* r.yaml inherits a.yaml alone; a.yaml declares models [m1] and a step that
\* references m1
AncestorModelCase ==
    /\ IsDoc(pR)
    /\ InheritsOf(pR) = <<pA>>
    /\ ~Declares(pA, pR)
    /\ Has(fs[pA].doc, "models")
    /\ ~Has(fs[pR].doc, "tasks")

\* C8: a reference is judged against the composed document: when the child
\* declares its own models without m1, its list replaces the ancestor's and
\* the ancestor's step is reported 'Task references unknown model: m1'; when
\* the child declares no models, the inherited m1 makes the reference valid.
C8_ReferenceJudgedOnComposed ==
    (RootCall /\ AncestorModelCase)
    => /\ ~IsNone(last.composed)
       /\ Has(fs[pR].doc, "models")
            => /\ last.composed.m["models"] = fs[pR].doc.m["models"]
               /\ Count(errors, UnknownModel("m1")) = 1
       /\ ~Has(fs[pR].doc, "models")
            => /\ last.composed.m["models"] = fs[pA].doc.m["models"]
               /\ Count(errors, UnknownModel("m1")) = 0

\* C8 observed: the child declares its own models [m2]; the ancestor's
\* reference to m1 is not reported, nothing being composed
C8_Observed ==
    /\ RootCall /\ AncestorModelCase /\ EndedOnNameError
    /\ Has(fs[pR].doc, "models")
    /\ ~DeclaresModel(fs[pR].doc, "m1")
    /\ Has(fs[pA].doc, "tasks")
    /\ Count(errors, UnknownModel("m1")) = 0

\* c.yaml is declared under two spellings: both by r.yaml, or one by a.yaml
\* and the other by b.yaml
SpellingCase ==
    /\ IsDoc(pR)
    /\ \/ InheritsOf(pR) = <<pC, pCdot>>
       \/ /\ InheritsOf(pR) \in {<<pA, pB>>, <<pB, pA>>}
          /\ InheritsOf(pA) = <<pC>>
          /\ InheritsOf(pB) = <<pCdot>>

\* C9: two spellings of the same file resolve to the same key, so that the
\* file has one entry in the Resolver Cache and one in the Merge Cache.
C9_OneCacheEntryPerFile ==
    (RootCall /\ SpellingCase)
    => /\ resolve_inheritance_path(P(pC), pR).exc = "none"
       /\ resolve_inheritance_path(P(pC), pR) = resolve_inheritance_path(P(pCdot), pR)
       /\ Cardinality({key \in DOMAIN inherited_specs : Canon(key) = pC}) = 1
       /\ Cardinality({key \in DOMAIN merge_cache : Canon(key) = pC}) = 1

\* C9 observed: with c.yaml declared under two spellings no key is computed
\* and neither cache gets an entry for it
C9_Observed ==
    /\ RootCall /\ SpellingCase /\ EndedOnNameError
    /\ DOMAIN inherited_specs = {}
    /\ DOMAIN merge_cache = {}

\* r.yaml has an inherits field that is a string, not a list
NonListCase ==
    IsDoc(pR) /\ Has(fs[pR].doc, "inherits") /\ ~IsList(fs[pR].doc.m["inherits"])

\* C10: an inherits field that is not a sequence is recorded as an error, and
\* the document is composed as having no ancestors.  The error is one more
\* than those the validation of the composed document records.
C10_NonListInheritsIsAnError ==
    (RootCall /\ NonListCase)
    => /\ last.composed = fs[pR].doc
       /\ Len(errors) > Len(SpecDiagnostics(last.composed).e)

\* C10 observed: the string-valued inherits is passed over: the document is
\* composed as it is and the errors are those of its validation, no more
C10_Observed ==
    /\ RootCall /\ NonListCase
    /\ last.composed = fs[pR].doc
    /\ errors = SpecDiagnostics(last.composed).e

----------------------------------------------------------------------------
(* Properties of the resolver and of the caches *)

\* r.yaml declares a.yaml and missing.yaml, which is no file, in either order
OneBadAncestorCase ==
    /\ IsDoc(pR)
    /\ InheritsOf(pR) \in {<<pA, pMissing>>, <<pMissing, pA>>}
    /\ pMissing \notin DOMAIN fs
    /\ ~Declares(pA, pR)

\* C11: when one declared ancestor fails to load, the error 'Inherited
\* specification not found: <path>' is recorded for it, and the other declared
\* ancestor, declared before or after it, is still in the resolver cache and
\* still contributes to the composed document as if the failing entry were
\* not declared.
C11_BadAncestorDoesNotStopTheOthers ==
    (RootCall /\ OneBadAncestorCase)
    => /\ \E i \in DOMAIN errors :
              errors[i] = "Inherited specification not found: missing.yaml"
       /\ \E key \in DOMAIN inherited_specs : Canon(key) = pA
       /\ ~IsNone(last.composed)
       /\ IF Has(fs[pR].doc, "x")
          THEN last.composed.m["x"] = fs[pR].doc.m["x"]
          ELSE last.composed.m["x"] = ComposedX(pA)

\* C11 observed: with a.yaml declared before missing.yaml, the call ends on
\* the NameError; a.yaml is not loaded and no error names missing.yaml
C11_Observed ==
    /\ RootCall /\ OneBadAncestorCase /\ EndedOnNameError
    /\ InheritsOf(pR) = <<pA, pMissing>>
    /\ DOMAIN inherited_specs = {}
    /\ last.loads = <<pR>>

\* the last call was the second one on this validator, and no file was
\* rewritten after it was made
SecondCall == ByInheritance /\ calls = 2 /\ last.edits = edits

\* C12: the caches are scoped to one validate_with_inheritance call: the
\* document a second call on the same validator composes is the one a
\* validator just constructed composes from the files as they are at that
\* call, also when a file was rewritten between the two calls.
C12_SecondCallUsesNoEarlierCacheEntry ==
    SecondCall
    => last.composed = validate_with_inheritance(NewValidator, fs, last.path).composed

\* C12 observed: r.yaml, which declares no ancestors, is validated, rewritten
\* (x becomes "edited") and validated again; the second call composes the
\* document of the first from the merge cache
C12_Observed ==
    /\ SecondCall /\ last.path = pR /\ edits = 1
    /\ IsDoc(pR) /\ InheritsOf(pR) = <<>>
    /\ fs[pR].doc.m["x"] = S("edited")
    /\ pR \in DOMAIN merge_cache
    /\ ~IsNone(last.composed)
    /\ ~(Has(last.composed, "x") /\ last.composed.m["x"] = S("edited"))
    /\ last.loads = <<pR>>

----------------------------------------------------------------------------
(* Associativity of deep_merge *)

Merged3 == last.op = "deep_merge_twice"

\* C13 as stated: deep_merge(deep_merge(A, B), C) = deep_merge(A, deep_merge(B, C))
\* for all mappings A, B and C.
C13_DeepMergeAssociative ==
    Merged3 => mOut.left = mOut.right

RECURSIVE Sandwiched(_, _, _)
\* some key, under keys that hold mappings in all of a, b and c, holds a
\* mapping in a and in c and a scalar or sequence in b, and the mapping of a
\* has content that the mapping of c does not override
Sandwiched(a, b, c) ==
    \E k \in DOMAIN a.m \cap DOMAIN b.m \cap DOMAIN c.m :
        /\ IsDict(a.m[k])
        /\ IsDict(c.m[k])
        /\ IF IsDict(b.m[k]) THEN Sandwiched(a.m[k], b.m[k], c.m[k])
           ELSE deep_merge(a.m[k], c.m[k]) # c.m[k]

\* C13 amended: the two orders give the same document exactly when no key
\* holds a scalar or sequence in B between mappings in A and C of which A's
\* has content C's does not override.
C13_AssociativeUnlessSandwiched ==
    Merged3 => ((mOut.left = mOut.right) <=> ~Sandwiched(mA, mB, mOut.c))

\* C13 witness: A = {a: {a: 1}}, B = {a: {b: 2}}, C = {a: {a: 2}}: both orders
\* give {a: {a: 2, b: 2}}
C13_Witness ==
    /\ Merged3
    /\ mA = M("a" :> M("a" :> S("1")))
    /\ mB = M("a" :> M("b" :> S("2")))
    /\ mOut.c = M("a" :> M("a" :> S("2")))
    /\ mOut.left = M("a" :> M([a |-> S("2"), b |-> S("2")]))
    /\ mOut.right = mOut.left

\* C13 observed: A = {a: {a: 1}}, B = {a: 1}, C = {a: {b: 2}}: the first order
\* gives {a: {b: 2}}, the second {a: {a: 1, b: 2}}
C13_Observed ==
    /\ Merged3
    /\ mA = M("a" :> M("a" :> S("1")))
    /\ mB = M("a" :> S("1"))
    /\ mOut.c = M("a" :> M("b" :> S("2")))
    /\ mOut.left = M("a" :> M("b" :> S("2")))
    /\ mOut.right = M("a" :> M([a |-> S("1"), b |-> S("2")]))

----------------------------------------------------------------------------
(* Prompt and MCP server references *)

\* the prompt ids a document declares, none when it has no prompts section
PromptIds(doc) ==
    IF Has(doc, "prompts") THEN DeclaredIds(doc.m["prompts"]) ELSE {}

\* the server ids a document declares, none when it has no context.mcp_servers
ServerIds(doc) ==
    IF Has(doc, "context") /\ Has(doc.m["context"], "mcp_servers")
    THEN DeclaredIds(doc.m["context"].m["mcp_servers"])
    ELSE {}

\* C14: for a validated document with tasks, every step whose prompt
\* (mcp_server) reference is not a declared prompt (server) id has its error
\* 'Task references unknown prompt: <id>' ('... unknown MCP server: <id>') in
\* the error list, also when the document declares no prompts (servers).
C14_UnknownPromptAndServerReported ==
    (Validated /\ Has(last.composed, "tasks"))
    => \A place \in StepPlaces(last.composed) :
           /\ (/\ Has(StepAt(last.composed, place), "prompt")
               /\ StepAt(last.composed, place).m["prompt"] \notin PromptIds(last.composed))
              => Count(errors, "Task references unknown prompt: "
                               \o Str(StepAt(last.composed, place).m["prompt"])) > 0
           /\ (/\ Has(StepAt(last.composed, place), "mcp_server")
               /\ StepAt(last.composed, place).m["mcp_server"]
                      \notin ServerIds(last.composed))
              => Count(errors, "Task references unknown MCP server: "
                               \o Str(StepAt(last.composed, place).m["mcp_server"])) > 0

\* C14 observed: a document with every required section, an empty prompts
\* list and a context without mcp_servers, whose step references prompt p1
\* and server s1: the prompt is reported, the server is not
C14_Observed ==
    /\ last.op = "validate_spec"
    /\ Has(last.composed, "tasks") /\ Has(last.composed, "context")
    /\ Has(last.composed, "prompts")
    /\ ~Has(last.composed.m["context"], "mcp_servers")
    /\ \E place \in StepPlaces(last.composed) : StepAt(last.composed, place) = StepAll
    /\ Count(errors, "Task references unknown prompt: p1") = 1
    /\ Count(errors, "Task references unknown MCP server: s1") = 0

----------------------------------------------------------------------------
(* The transitive closure of the resolver *)

\* yaml.safe_load gives a document for the file
Loadable(path) == path \in DOMAIN fs /\ fs[path].kind = "doc" /\ ~IsNone(fs[path].doc)

\* the files the documents of the files in F declare in inherits
Parents(F) ==
    UNION {{Canon(InheritsOf(path)[i]) : i \in 1..Len(InheritsOf(path))} :
              path \in {f \in F : IsDoc(f)}}

RECURSIVE Closure(_, _)
\* F and the loadable files reached from it in at most n inherits steps
Closure(F, n) ==
    IF n = 0 THEN F
    ELSE Closure(F \cup {f \in Parents(F) : Loadable(f)}, n - 1)

\* the loadable files reached from path through one or more inherits entries
Reachable(path) ==
    Closure({f \in Parents({path}) : Loadable(f)}, Cardinality(DOMAIN fs))

\* C15: from empty caches, when the outermost load_inherited_specs(root,
\* rootPath) is over it has returned, and every loadable document reachable
\* from the root through inherits entries is in inherited_specs under its
\* resolved path, for trees, diamonds and cycles.
C15_ResolverLoadsTransitiveClosure ==
    (last.op = "load_inherited_specs" /\ last.path = pR)
    => /\ last.raised = "none"
       /\ \A f \in Reachable(pR) :
              \E key \in DOMAIN inherited_specs :
                  Canon(key) = f /\ inherited_specs[key] = fs[f].doc

\* C15 observed: r.yaml inherits a.yaml and b.yaml, both inherit c.yaml; the
\* call ends on the NameError with nothing in the cache
C15_Observed ==
    /\ last.op = "load_inherited_specs" /\ last.path = pR
    /\ DiamondCase
    /\ Reachable(pR) = {pA, pB, pC}
    /\ last.raised = NameErrorOs
    /\ DOMAIN inherited_specs = {}
    /\ last.loads = <<pR>>

----------------------------------------------------------------------------
(* Loads of one run *)

\* C16: during one validate_with_inheritance run load_spec is called at most
\* once for each file: no two entries of the run's loads denote the same file.
C16_NoFileLoadedTwice ==
    ByInheritance
    => \A i, j \in DOMAIN last.loads :
           Canon(last.loads[i]) = Canon(last.loads[j]) => i = j

\* C16, what the runs do: every run ends after the load of its root, so that
\* no ancestor is requested, once or twice
C16_OnlyTheRootIsLoaded ==
    ByInheritance => last.loads = <<last.path>>

====
